---- MODULE Spec2Model ----
(***************************************************************************)
(* tomly: the TomlDict dictionary (dot access, nested paths, flatten) and  *)
(* the load/dump helpers around the TOML codec.                            *)
(*                                                                         *)
(* Python values are modelled as trees of records:                         *)
(*   [t |-> "int",  n |-> 1]            an integer                         *)
(*   [t |-> "str",  s |-> <<"a","b">>]  a string, one element per char     *)
(*   [t |-> "none"]                     None                               *)
(*   [t |-> "obj"]                      an object TOML cannot represent    *)
(*   [t |-> "list", elems |-> <<..>>]   a list                             *)
(*   [t |-> "dict", cls |-> c, items |-> <<[k |-> key, v |-> value],..>>]  *)
(*        a dict in insertion order; cls is "dict" or "TomlDict"           *)
(* Strings are sequences of one-character strings, so that split,          *)
(* startswith and the key joining of flatten are computed on characters.   *)
(***************************************************************************)
EXTENDS Integers, Sequences, FiniteSets, TLC

VARIABLES
    d,        \* the TomlDict instance under test (its dict content)
    attrs,    \* the instance __dict__ (attributes set by object.__setattr__)
    pre,      \* d before the last operation
    last,     \* the last operation: its name, arguments, result, exception
    nops,     \* number of operations performed
    fileC,    \* content of the file behind the Path destination (bytes), or <<"absent">>
    textC,    \* content of the text stream destination (characters)
    binC,     \* content of the binary stream destination (bytes)
    tree,     \* the value tree handed to dumps
    opts,     \* the keyword arguments of dumps and loads
    doc,      \* the result of dumps
    back      \* the result of loads on that text

vars == <<d, attrs, pre, last, nops, fileC, textC, binC, tree, opts, doc, back>>

---------------------------------------------------------------------------
(* Value constructors *)

IntV(n) == [t |-> "int", n |-> n]
StrV(s) == [t |-> "str", s |-> s]
NoneV == [t |-> "none"]
ObjV == [t |-> "obj"]
ListV(elems) == [t |-> "list", elems |-> elems]
DictV(cls, items) == [t |-> "dict", cls |-> cls, items |-> items]
Item(k, v) == [k |-> k, v |-> v]

\* isinstance(value, dict): true of dict and of its subclass TomlDict
IsDict(value) == value.t = "dict"
\* isinstance(value, TomlDict)
IsTomlDict(value) == value.t = "dict" /\ value.cls = "TomlDict"
\* isinstance(value, list)
IsList(value) == value.t = "list"

---------------------------------------------------------------------------
(* The built-in dict, in insertion order *)

KeyIndex(items, key) ==
    IF \E i \in 1..Len(items) : items[i].k = key
    THEN CHOOSE i \in 1..Len(items) : items[i].k = key
    ELSE 0

\* key in self
HasKey(self, key) == KeyIndex(self.items, key) # 0

\* self[key], for a key that is present
GetItem(self, key) == self.items[KeyIndex(self.items, key)].v

\* dict.__setitem__: replaces the value in place, or appends a new key
dict_setitem(self, key, value) ==
    LET i == KeyIndex(self.items, key) IN
    [self EXCEPT !.items =
        IF i = 0 THEN Append(self.items, Item(key, value))
        ELSE [self.items EXCEPT ![i] = Item(key, value)]]

\* dict.__delitem__, for a key that is present
dict_delitem(self, key) ==
    LET i == KeyIndex(self.items, key) IN
    [self EXCEPT !.items =
        SubSeq(self.items, 1, i - 1) \o SubSeq(self.items, i + 1, Len(self.items))]

---------------------------------------------------------------------------
(* TomlDict: construction and wrapping *)

RECURSIVE _wrap(_)

\* TomlDict(value): copies the items, then wraps every value
TomlDict__init__(value) ==
    DictV("TomlDict",
          [i \in 1..Len(value.items) |->
              Item(value.items[i].k, _wrap(value.items[i].v))])

_wrap(value) ==
    IF IsDict(value) /\ ~IsTomlDict(value) THEN TomlDict__init__(value)
    ELSE IF IsList(value)
         THEN ListV([i \in 1..Len(value.elems) |-> _wrap(value.elems[i])])
         ELSE value

\* TomlDict.__setitem__
__setitem__(self, key, value) == dict_setitem(self, key, _wrap(value))

\* current[key] = value, dispatched on the class of current
SetItemOf(current, key, value) ==
    IF IsTomlDict(current) THEN __setitem__(current, key, value)
    ELSE dict_setitem(current, key, value)

---------------------------------------------------------------------------
(* Strings *)

\* the characters of the model's strings
Dot == <<".">>
Slash == <<"/">>

\* whether sep occurs in s at position i
SepAt(s, i, sep) ==
    i + Len(sep) - 1 <= Len(s) /\ SubSeq(s, i, i + Len(sep) - 1) = sep

\* str.split(sep) for a non-empty sep: cut at every occurrence, left to right
RECURSIVE split(_, _)
split(s, sep) ==
    IF \E i \in 1..Len(s) : SepAt(s, i, sep)
    THEN LET i == CHOOSE i \in 1..Len(s) :
                     SepAt(s, i, sep) /\ \A j \in 1..(i - 1) : ~SepAt(s, j, sep)
         IN <<SubSeq(s, 1, i - 1)>> \o split(SubSeq(s, i + Len(sep), Len(s)), sep)
    ELSE <<s>>

\* key.startswith("_")
StartsWithUnderscore(key) == Len(key) >= 1 /\ key[1] = "_"

\* str(i) for a list index
RECURSIVE IntStr(_)
IntStr(i) ==
    LET digits == <<"0", "1", "2", "3", "4", "5", "6", "7", "8", "9">> IN
    IF i < 10 THEN <<digits[i + 1]>>
    ELSE IntStr(i \div 10) \o <<digits[(i % 10) + 1]>>

\* a path argument is a str or a sequence of keys
StrPath(s) == [t |-> "str", s |-> s]
SeqPath(keys) == [t |-> "list", elems |-> keys]

\* keys = path.split(separator) if isinstance(path, str) else path
PathKeys(path, separator) ==
    IF path.t = "str" THEN split(path.s, separator) ELSE path.elems

---------------------------------------------------------------------------
(* TomlDict: attribute access *)

\* names that normal attribute lookup finds on the class (methods of dict
\* and of TomlDict); those among the keys the model uses
ClassAttrs == {<<"i", "t", "e", "m", "s">>, <<"g", "e", "t">>}

Returned(value) == [exc |-> "none", val |-> value]
Raised(exc) == [exc |-> exc]

\* TomlDict.__getattr__: reached only when normal lookup fails
__getattr__(self, key) ==
    IF HasKey(self, key) THEN Returned(GetItem(self, key))
    ELSE Raised("AttributeError")

\* reading self.key: the instance __dict__, then the class, then __getattr__
getattr(self, iattrs, key) ==
    IF key \in DOMAIN iattrs THEN Returned(iattrs[key])
    ELSE IF key \in ClassAttrs THEN Returned([t |-> "method", name |-> key])
    ELSE __getattr__(self, key)

\* a plausible slip: the value is stored without wrapping
setattr_nowrap(self, iattrs, key, value) ==
    IF StartsWithUnderscore(key)
    THEN [self |-> self, attrs |-> (key :> value) @@ iattrs]
    ELSE [self |-> dict_setitem(self, key, value), attrs |-> iattrs]

\* TomlDict.__setattr__
__setattr__(self, iattrs, key, value) ==
    IF StartsWithUnderscore(key)
    THEN [self |-> self, attrs |-> (key :> value) @@ iattrs]
    ELSE [self |-> __setitem__(self, key, value), attrs |-> iattrs]

\* TomlDict.__delattr__
__delattr__(self, key) ==
    IF HasKey(self, key)
    THEN [exc |-> "none", self |-> dict_delitem(self, key)]
    ELSE [exc |-> "AttributeError", self |-> self]

---------------------------------------------------------------------------
(* dict methods TomlDict inherits unchanged *)

\* dict.update(other): stores every item of other with dict.__setitem__
RECURSIVE dict_update(_, _)
dict_update(self, otherItems) ==
    IF otherItems = <<>> THEN self
    ELSE dict_update(dict_setitem(self, Head(otherItems).k, Head(otherItems).v),
                     Tail(otherItems))

\* dict.setdefault(key, default)
dict_setdefault(self, key, default) ==
    IF HasKey(self, key) THEN [self |-> self, ret |-> GetItem(self, key)]
    ELSE [self |-> dict_setitem(self, key, default), ret |-> default]

---------------------------------------------------------------------------
(* TomlDict: nested paths *)

RECURSIVE get_nested_loop(_, _, _)
get_nested_loop(current, keys, default) ==
    IF keys = <<>> THEN current
    ELSE IF IsDict(current) /\ HasKey(current, Head(keys))
         THEN get_nested_loop(GetItem(current, Head(keys)), Tail(keys), default)
         ELSE default

\* TomlDict.get_nested
get_nested(self, path, default, separator) ==
    get_nested_loop(self, PathKeys(path, separator), default)

\* the loop of set_nested over keys[:-1], then current[keys[-1]] = value;
\* the result is current after the assignments made through it
RECURSIVE set_nested_loop(_, _, _)
set_nested_loop(current, keys, value) ==
    IF Len(keys) = 1 THEN SetItemOf(current, keys[1], value)
    ELSE LET key == Head(keys)
             made == IF ~HasKey(current, key) \/ ~IsDict(GetItem(current, key))
                     THEN SetItemOf(current, key, DictV("TomlDict", <<>>))
                     ELSE current
         IN dict_setitem(made, key,
                         set_nested_loop(GetItem(made, key), Tail(keys), value))

\* TomlDict.set_nested; keys[-1] of an empty sequence raises IndexError
set_nested(self, path, value, separator) ==
    LET keys == PathKeys(path, separator) IN
    IF keys = <<>> THEN [exc |-> "IndexError", self |-> self]
    ELSE [exc |-> "none", self |-> set_nested_loop(self, keys, value)]

RECURSIVE delete_nested_loop(_, _)
delete_nested_loop(current, keys) ==
    IF Len(keys) = 1
    THEN IF IsDict(current) /\ HasKey(current, keys[1])
         THEN [ret |-> TRUE, self |-> dict_delitem(current, keys[1])]
         ELSE [ret |-> FALSE, self |-> current]
    ELSE IF ~IsDict(current) \/ ~HasKey(current, Head(keys))
         THEN [ret |-> FALSE, self |-> current]
         ELSE LET r == delete_nested_loop(GetItem(current, Head(keys)), Tail(keys))
              IN [ret |-> r.ret,
                  self |-> dict_setitem(current, Head(keys), r.self)]

\* a plausible slip: the final key is deleted without the membership test,
\* and the call reports success whenever the parents resolve
RECURSIVE delete_nested_loop_nocheck(_, _)
delete_nested_loop_nocheck(current, keys) ==
    IF Len(keys) = 1
    THEN IF IsDict(current)
         THEN [ret |-> TRUE,
               self |-> IF HasKey(current, keys[1])
                        THEN dict_delitem(current, keys[1]) ELSE current]
         ELSE [ret |-> FALSE, self |-> current]
    ELSE IF ~IsDict(current) \/ ~HasKey(current, Head(keys))
         THEN [ret |-> FALSE, self |-> current]
         ELSE LET r == delete_nested_loop_nocheck(GetItem(current, Head(keys)),
                                                  Tail(keys))
              IN [ret |-> r.ret,
                  self |-> dict_setitem(current, Head(keys), r.self)]

delete_nested_nocheck(self, path, separator) ==
    delete_nested_loop_nocheck(self, split(path, separator))

\* TomlDict.delete_nested: path is a str
delete_nested(self, path, separator) ==
    delete_nested_loop(self, split(path, separator))

---------------------------------------------------------------------------
(* TomlDict: flatten *)

RECURSIVE _flatten_recursive(_, _, _, _)
RECURSIVE flatten_items(_, _, _, _)
RECURSIVE flatten_elems(_, _, _, _, _)

\* for key, value in current_item.items(): ...
flatten_items(items, current_key, separator, result) ==
    IF items = <<>> THEN result
    ELSE LET key == Head(items).k
             new_key == IF current_key # <<>>
                        THEN current_key \o separator \o key ELSE key
         IN flatten_items(Tail(items), current_key, separator,
                _flatten_recursive(Head(items).v, new_key, separator, result))

\* for i, item in enumerate(current_item): ...
flatten_elems(elems, i, current_key, separator, result) ==
    IF i > Len(elems) THEN result
    ELSE flatten_elems(elems, i + 1, current_key, separator,
            _flatten_recursive(elems[i],
                               current_key \o <<"[">> \o IntStr(i - 1) \o <<"]">>,
                               separator, result))

_flatten_recursive(current_item, current_key, separator, result) ==
    IF IsDict(current_item)
    THEN flatten_items(current_item.items, current_key, separator, result)
    ELSE IF IsList(current_item) /\ current_item.elems # <<>>
            /\ IsDict(current_item.elems[1])
         THEN flatten_elems(current_item.elems, 1, current_key, separator, result)
         ELSE dict_setitem(result, current_key, current_item)

\* TomlDict.flatten: the result is a plain dict
flatten(self, separator, parent_key) ==
    _flatten_recursive(self, parent_key, separator, DictV("dict", <<>>))

---------------------------------------------------------------------------
(* Inputs of the TomlDict operations *)

MaxOps == 2

kA == <<"a">>
kB == <<"b">>
kAB == <<"a", ".", "b">>
kPriv == <<"_", "p">>
kItems == <<"i", "t", "e", "m", "s">>

Keys == {kA, kB, kAB, kPriv, kItems}

PlainDict(items) == DictV("dict", items)

vInt == IntV(1)
vTable == PlainDict(<<Item(kB, IntV(2))>>)
vEmptyTable == PlainDict(<<>>)
vMixedList == ListV(<<IntV(1), vTable>>)
vTableList == ListV(<<vTable, vEmptyTable>>)
vEmptyList == ListV(<<>>)
vWrapped == TomlDict__init__(vTable)

Values == {vInt, vTable, vEmptyTable, vMixedList, vTableList, vEmptyList, vWrapped}
AttrValues == {vInt, vTable, vTableList}
NestedValues == {vInt, vTable, vMixedList}

\* arguments of the constructor
InitArgs ==
    { PlainDict(<<>>),
      PlainDict(<<Item(kA, PlainDict(<<Item(kB, IntV(1)), Item(kA, vTable)>>)),
                  Item(kB, vTableList)>>),
      PlainDict(<<Item(kAB, IntV(1)), Item(kA, vInt)>>) }

\* arguments of update
UpdateArgs ==
    { PlainDict(<<Item(kA, vTable)>>),
      PlainDict(<<Item(kB, IntV(3)), Item(kA, vTableList)>>) }

\* (path, separator) arguments of the nested operations
StrPathArgs ==
    { <<kA, Dot>>, <<kAB, Dot>>, <<kAB, Slash>>, <<<<"a", "/", "b">>, Slash>>,
      <<<<"a", ".", "a", ".", "b">>, Dot>>, <<<<"b", ".", "b">>, Dot>> }
SeqPathArgs == { <<kA, kB>>, <<kAB>>, <<>> }
PathArgs ==
    { <<StrPath(a[1]), a[2]>> : a \in StrPathArgs }
        \cup { <<SeqPath(ks), Dot>> : ks \in SeqPathArgs }

\* the default handed to get_nested: a value no operation stores
Missing == [t |-> "missing"]

---------------------------------------------------------------------------
(* The TomlDict under a sequence of operations *)

Unset == [t |-> "unset"]

NoIO == UNCHANGED <<fileC, textC, binC>>
NoCodec == UNCHANGED <<tree, opts, doc, back>>

InitIO == fileC = <<"absent">> /\ textC = <<>> /\ binC = <<>>
InitNoCodec == tree = Unset /\ opts = Unset /\ doc = Unset /\ back = Unset

\* d = TomlDict(arg)
InitDict ==
    /\ \E arg \in InitArgs : d = TomlDict__init__(arg)
    /\ attrs = <<>>
    /\ pre = d
    /\ last = [op |-> "init"]
    /\ nops = 0
    /\ InitIO
    /\ InitNoCodec

Step == nops < MaxOps /\ nops' = nops + 1 /\ pre' = d /\ NoIO /\ NoCodec

\* d[key] = value
SetItem ==
    \E key \in Keys, value \in Values :
        /\ Step
        /\ d' = __setitem__(d, key, value)
        /\ last' = [op |-> "setitem", key |-> key, value |-> value]
        /\ UNCHANGED attrs

\* d.key = value
SetAttr ==
    \E key \in Keys, value \in AttrValues :
        LET r == __setattr__(d, attrs, key, value) IN
        /\ Step
        /\ d' = r.self
        /\ attrs' = r.attrs
        /\ last' = [op |-> "setattr", key |-> key, value |-> value]

\* d.key
GetAttr ==
    \E key \in Keys :
        LET r == getattr(d, attrs, key) IN
        /\ Step
        /\ last' = [op |-> "getattr", key |-> key, exc |-> r.exc, out |-> r]
        /\ UNCHANGED <<d, attrs>>

\* del d.key
DelAttr ==
    \E key \in Keys :
        LET r == __delattr__(d, key) IN
        /\ Step
        /\ d' = r.self
        /\ last' = [op |-> "delattr", key |-> key, exc |-> r.exc]
        /\ UNCHANGED attrs

\* d.update(other)
Update ==
    \E other \in UpdateArgs :
        /\ Step
        /\ d' = dict_update(d, other.items)
        /\ last' = [op |-> "update", other |-> other]
        /\ UNCHANGED attrs

\* d.setdefault(key, value)
SetDefault ==
    \E key \in {kA, kB}, value \in {vInt, vTable} :
        LET r == dict_setdefault(d, key, value) IN
        /\ Step
        /\ d' = r.self
        /\ last' = [op |-> "setdefault", key |-> key, value |-> value, ret |-> r.ret]
        /\ UNCHANGED attrs

\* d.set_nested(path, value, separator)
SetNested ==
    \E a \in PathArgs, value \in NestedValues :
        LET r == set_nested(d, a[1], value, a[2]) IN
        /\ Step
        /\ d' = r.self
        /\ last' = [op |-> "set_nested", path |-> a[1], sep |-> a[2],
                    value |-> value, exc |-> r.exc]
        /\ UNCHANGED attrs

\* d.get_nested(path, Missing, separator)
GetNested ==
    \E a \in PathArgs :
        /\ Step
        /\ last' = [op |-> "get_nested", path |-> a[1], sep |-> a[2],
                    ret |-> get_nested(d, a[1], Missing, a[2])]
        /\ UNCHANGED <<d, attrs>>

\* d.delete_nested(path, separator)
DeleteNested ==
    \E a \in StrPathArgs :
        LET r == delete_nested(d, a[1], a[2]) IN
        /\ Step
        /\ d' = r.self
        /\ last' = [op |-> "delete_nested", path |-> a[1], sep |-> a[2],
                    ret |-> r.ret]
        /\ UNCHANGED attrs

\* d.flatten(separator, parent_key)
Flatten ==
    \E sep \in {Dot}, parent_key \in {<<>>, kA} :
        /\ Step
        /\ last' = [op |-> "flatten", sep |-> sep, parent_key |-> parent_key,
                    ret |-> flatten(d, sep, parent_key)]
        /\ UNCHANGED <<d, attrs>>

NextDict ==
    \/ SetItem \/ SetAttr \/ GetAttr \/ DelAttr \/ Update \/ SetDefault
    \/ SetNested \/ GetNested \/ DeleteNested \/ Flatten

SpecDict == InitDict /\ [][NextDict]_vars

---------------------------------------------------------------------------
(* Properties of the TomlDict operations *)

\* every dict reachable through dict values and list elements is a TomlDict
RECURSIVE Wrapped(_)
Wrapped(value) ==
    IF IsDict(value)
    THEN IsTomlDict(value)
         /\ \A i \in 1..Len(value.items) : Wrapped(value.items[i].v)
    ELSE IF IsList(value)
         THEN \A i \in 1..Len(value.elems) : Wrapped(value.elems[i])
         ELSE TRUE

\* C1: after construction and after any sequence of insertions (d[k] = v,
\* d.k = v, set_nested, update, setdefault), every dict reachable from the
\* TomlDict through dict values and list elements is a TomlDict.
C1_RecursiveWrapping == Wrapped(d)

\* a key that attribute assignment stores as an item and that attribute
\* reading looks up among the items
PublicKey(key) == ~StartsWithUnderscore(key) /\ key \notin ClassAttrs

\* after d.k = v: the item exists, equals the wrapped v, and d.k reads it
SetAttrStoresItem(key, value) ==
    /\ HasKey(d, key)
    /\ GetItem(d, key) = _wrap(value)
    /\ getattr(d, attrs, key) = Returned(GetItem(d, key))

\* C3 as stated: for every string key k and value v, after d.k = v the item
\* d[k] exists, equals the wrapped v and d.k reads it; after del d.k the key
\* is absent; reading or deleting d.k for a key not in d raises AttributeError.
C3_DotAccessEveryKey ==
    /\ last.op = "setattr" => SetAttrStoresItem(last.key, last.value)
    /\ (last.op = "delattr" /\ last.exc = "none") => ~HasKey(d, last.key)
    /\ (last.op \in {"getattr", "delattr"} /\ ~HasKey(pre, last.key))
           => last.exc = "AttributeError"

\* C3 amended: the same for every key that does not start with "_" and is
\* not the name of an attribute of the class; deleting d.k raises
\* AttributeError for every key not in d.
C3_DotAccessPublicKey ==
    /\ (last.op = "setattr" /\ PublicKey(last.key))
           => SetAttrStoresItem(last.key, last.value)
    /\ (last.op = "delattr" /\ last.exc = "none") => ~HasKey(d, last.key)
    /\ (last.op = "getattr" /\ PublicKey(last.key) /\ ~HasKey(pre, last.key))
           => last.exc = "AttributeError"
    /\ (last.op = "delattr" /\ ~HasKey(pre, last.key))
           => last.exc = "AttributeError"

\* a table was assigned through a public attribute name
C3_WitnessSetTable ==
    /\ last.op = "setattr" /\ PublicKey(last.key) /\ IsDict(last.value)
    /\ IsTomlDict(GetItem(d, last.key))

\* the proper prefixes of keys, the empty one left out
ProperPrefixes(keys) == { SubSeq(keys, 1, n) : n \in 1..(Len(keys) - 1) }

\* C4: after set_nested(path, v), get_nested(path, default) with the same
\* separator returns the wrapped v and not the default, and the intermediate
\* keys that were missing hold TomlDict instances.
C4_SetGetRoundTrip ==
    (last.op = "set_nested" /\ last.exc = "none") =>
        /\ get_nested(d, last.path, Missing, last.sep) = _wrap(last.value)
        /\ \A p \in ProperPrefixes(PathKeys(last.path, last.sep)) :
               get_nested_loop(pre, p, Missing) = Missing
                   => IsTomlDict(get_nested_loop(d, p, Missing))

\* every segment of keys resolves through nested dicts to an existing key
RECURSIVE Resolves(_, _)
Resolves(current, keys) ==
    /\ keys # <<>>
    /\ IsDict(current)
    /\ HasKey(current, Head(keys))
    /\ Len(keys) = 1 \/ Resolves(GetItem(current, Head(keys)), Tail(keys))

IsPrefix(p, q) == Len(p) <= Len(q) /\ SubSeq(q, 1, Len(p)) = p

KeysOf(table) == [i \in 1..Len(table.items) |-> table.items[i].k]

RECURSIVE SeqWithout(_, _)
SeqWithout(seq, x) ==
    IF seq = <<>> THEN <<>>
    ELSE IF Head(seq) = x THEN SeqWithout(Tail(seq), x)
         ELSE <<Head(seq)>> \o SeqWithout(Tail(seq), x)

\* the key sequences the frame of delete_nested is probed with
ProbeKeys == Keys \cup {<<"a", "/", "b">>}
ProbePaths ==
    {<<>>} \cup { <<k>> : k \in ProbeKeys }
           \cup { <<k, l>> : k \in ProbeKeys, l \in ProbeKeys }
           \cup { <<k, l, m>> : k \in ProbeKeys, l \in ProbeKeys, m \in ProbeKeys }

\* only the final key of keys is gone: what lies at or under the path is
\* missing, each table on the way keeps its class and its other keys, and
\* everything else is as before
OnlyFinalKeyRemoved(before, after, keys) ==
    \A q \in ProbePaths :
        LET was == get_nested_loop(before, q, Missing)
            is == get_nested_loop(after, q, Missing)
        IN IF IsPrefix(keys, q) THEN is = Missing
           ELSE IF IsPrefix(q, keys)
                THEN /\ IsDict(was) /\ IsDict(is) /\ is.cls = was.cls
                     /\ KeysOf(is) = IF Len(q) = Len(keys) - 1
                                     THEN SeqWithout(KeysOf(was), keys[Len(keys)])
                                     ELSE KeysOf(was)
                ELSE is = was

\* C5: delete_nested(path) returns True exactly when every segment of the
\* path resolves through nested dicts to an existing key; then only the final
\* key is removed and get_nested(path, default) returns the default; when it
\* returns False the TomlDict is unchanged.
C5_DeleteNested ==
    last.op = "delete_nested" =>
        LET keys == split(last.path, last.sep) IN
        /\ last.ret = Resolves(pre, keys)
        /\ last.ret =>
               /\ get_nested(d, StrPath(last.path), Missing, last.sep) = Missing
               /\ OnlyFinalKeyRemoved(pre, d, keys)
        /\ ~last.ret => d = pre

\* a key of a nested table was deleted
C5_WitnessNestedDelete ==
    /\ last.op = "delete_nested" /\ last.ret
    /\ Len(split(last.path, last.sep)) >= 2
    /\ d # pre

\* the value is a dict or a list holding one, at any depth
RECURSIVE ContainsDict(_)
ContainsDict(value) ==
    IF IsDict(value) THEN TRUE
    ELSE IF IsList(value)
         THEN \E i \in 1..Len(value.elems) : ContainsDict(value.elems[i])
         ELSE FALSE

\* a value flatten stores under one key: not a table, not a list of tables
IsLeaf(value) ==
    ~IsDict(value)
    /\ ~(IsList(value) /\ value.elems # <<>> /\ IsDict(value.elems[1]))

\* the leaves of the table are entries under prefix + separator + key
TableKeysJoined(table, prefix, separator, result) ==
    \A j \in 1..Len(table.items) :
        IsLeaf(table.items[j].v)
            => HasKey(result, prefix \o separator \o table.items[j].k)

\* the nested tables of self and the tables of its lists of tables
\* contribute keys joined with the separator, list elements with [i]
KeysJoined(self, separator, parent_key, result) ==
    \A i \in 1..Len(self.items) :
        LET value == self.items[i].v
            key == IF parent_key # <<>>
                   THEN parent_key \o separator \o self.items[i].k
                   ELSE self.items[i].k
        IN IF IsDict(value) THEN TableKeysJoined(value, key, separator, result)
           ELSE IF IsLeaf(value) THEN HasKey(result, key)
           ELSE \A e \in 1..Len(value.elems) :
                    IsDict(value.elems[e])
                        => TableKeysJoined(value.elems[e],
                               key \o <<"[">> \o IntStr(e - 1) \o <<"]">>,
                               separator, result)

\* C6: flatten returns a single-level dictionary: no value in the result is
\* a dict or contains a dict; nested tables contribute keys joined with the
\* separator and elements of a list of tables keys with an [i] suffix.
C6_FlattenSingleLevel ==
    last.op = "flatten" =>
        /\ \A i \in 1..Len(last.ret.items) : ~ContainsDict(last.ret.items[i].v)
        /\ KeysJoined(d, last.sep, last.parent_key, last.ret)

\* the joined keys alone: these are present after every flatten
FlattenKeysJoined ==
    last.op = "flatten" => KeysJoined(d, last.sep, last.parent_key, last.ret)

\* the values at the leaf positions of a nested structure, in order: a leaf
\* is a value that is neither a table nor a list of tables, or an empty
\* nested table
RECURSIVE LeafValues(_, _)
RECURSIVE LeafValuesOfSeq(_)
LeafValuesOfSeq(values) ==
    IF values = <<>> THEN <<>>
    ELSE LeafValues(Head(values), FALSE) \o LeafValuesOfSeq(Tail(values))

LeafValues(value, isRoot) ==
    IF IsDict(value)
    THEN IF value.items = <<>> /\ ~isRoot THEN <<value>>
         ELSE LeafValuesOfSeq([i \in 1..Len(value.items) |-> value.items[i].v])
    ELSE IF IsList(value) /\ value.elems # <<>> /\ IsDict(value.elems[1])
         THEN LeafValuesOfSeq(value.elems)
         ELSE <<value>>

\* C8: flatten maps distinct leaf positions to distinct keys: the result has
\* exactly one entry per leaf (empty nested tables and empty lists included)
\* and the entries hold the leaves' values.
C8_FlattenLossless ==
    last.op = "flatten" =>
        LET leaves == LeafValues(d, TRUE) IN
        /\ Len(last.ret.items) = Len(leaves)
        /\ \A i \in 1..Len(leaves) : last.ret.items[i].v = leaves[i]

---------------------------------------------------------------------------
(* The TOML codec behind loads and dumps (the rtoml package): a document is *)
(* a sequence of characters, one "key = value" line per item of the root    *)
(* table, nested tables written inline.                                     *)

Quote == "\""
Backslash == "\\"
Newline == "\n"
Digits == <<"0", "1", "2", "3", "4", "5", "6", "7", "8", "9">>
DigitChars == { Digits[i] : i \in 1..10 }
BareKeyChars == DigitChars \cup {"a", "b", "l", "n", "u", "x", "_", "-"}

Ok(text) == [ok |-> TRUE, text |-> text]
SerializeError == [ok |-> FALSE, exc |-> "SerializeError"]
ParseError == [ok |-> FALSE, exc |-> "ParseError"]

\* a basic string: the quote and the backslash are escaped
RECURSIVE Escape(_)
Escape(s) ==
    IF s = <<>> THEN <<>>
    ELSE (IF Head(s) \in {Quote, Backslash} THEN <<Backslash, Head(s)>>
          ELSE <<Head(s)>>) \o Escape(Tail(s))

RenderString(s) == <<Quote>> \o Escape(s) \o <<Quote>>

\* a key is written bare when its characters allow it, quoted otherwise
RenderKey(key) ==
    IF key # <<>> /\ \A i \in 1..Len(key) : key[i] \in BareKeyChars
    THEN key ELSE RenderString(key)

Indent == <<" ", " ", " ", " ">>

RECURSIVE RenderValue(_, _, _)
RECURSIVE RenderList(_, _, _, _, _)
RECURSIVE RenderInline(_, _, _, _, _)

\* [v, v] or, pretty, one element per line with a trailing comma
RenderList(elems, i, pretty, none_value, acc) ==
    IF i > Len(elems)
    THEN Ok(acc \o (IF pretty /\ elems # <<>> THEN <<Newline>> ELSE <<>>) \o <<"]">>)
    ELSE LET r == RenderValue(elems[i], pretty, none_value) IN
         IF ~r.ok THEN r
         ELSE RenderList(elems, i + 1, pretty, none_value,
                  IF pretty THEN acc \o <<Newline>> \o Indent \o r.text \o <<",">>
                  ELSE acc \o (IF i > 1 THEN <<",", " ">> ELSE <<>>) \o r.text)

\* { k = v, k = v }
RenderInline(items, i, pretty, none_value, acc) ==
    IF i > Len(items)
    THEN Ok(acc \o (IF items # <<>> THEN <<" ">> ELSE <<>>) \o <<"}">>)
    ELSE LET r == RenderValue(items[i].v, FALSE, none_value) IN
         IF ~r.ok THEN r
         ELSE RenderInline(items, i + 1, pretty, none_value,
                  acc \o (IF i > 1 THEN <<",", " ">> ELSE <<" ">>)
                      \o RenderKey(items[i].k) \o <<" ", "=", " ">> \o r.text)

\* None is written as the string none_value; without one it has no
\* representation, like an object of any other type
RenderValue(value, pretty, none_value) ==
    CASE value.t = "int" -> Ok(IntStr(value.n))
      [] value.t = "str" -> Ok(RenderString(value.s))
      [] value.t = "none" ->
            IF none_value.t = "str" THEN Ok(RenderString(none_value.s))
            ELSE SerializeError
      [] value.t = "list" -> RenderList(value.elems, 1, pretty, none_value, <<"[">>)
      [] value.t = "dict" -> RenderInline(value.items, 1, pretty, none_value, <<"{">>)
      [] OTHER -> SerializeError

RECURSIVE RenderDocument(_, _, _, _, _)
RenderDocument(items, i, pretty, none_value, acc) ==
    IF i > Len(items) THEN Ok(acc)
    ELSE LET r == RenderValue(items[i].v, pretty, none_value) IN
         IF ~r.ok THEN r
         ELSE RenderDocument(items, i + 1, pretty, none_value,
                  acc \o RenderKey(items[i].k) \o <<" ", "=", " ">> \o r.text
                      \o <<Newline>>)

\* rtoml.dumps: the root is a table
rtoml_dumps(obj, pretty, none_value) ==
    IF ~IsDict(obj) THEN SerializeError
    ELSE RenderDocument(obj.items, 1, pretty, none_value, <<>>)

\* the character at position i, or "EOF"
Ch(txt, i) == IF i <= Len(txt) THEN txt[i] ELSE "EOF"

Parsed(value, next) == [ok |-> TRUE, v |-> value, i |-> next]

RECURSIVE SkipSpace(_, _, _)
SkipSpace(txt, i, chars) ==
    IF Ch(txt, i) \in chars THEN SkipSpace(txt, i + 1, chars) ELSE i

Blank == {" "}
BlankOrNewline == {" ", Newline}

\* the body of a basic string, from position i to the closing quote
RECURSIVE ParseStringBody(_, _, _)
ParseStringBody(txt, i, acc) ==
    LET c == Ch(txt, i) IN
    IF c = "EOF" \/ c = Newline THEN ParseError
    ELSE IF c = Quote THEN Parsed(acc, i + 1)
    ELSE IF c = Backslash
         THEN IF Ch(txt, i + 1) \in {Quote, Backslash}
              THEN ParseStringBody(txt, i + 2, Append(acc, txt[i + 1]))
              ELSE ParseError
         ELSE ParseStringBody(txt, i + 1, Append(acc, c))

RECURSIVE ParseBare(_, _, _, _)
ParseBare(txt, i, chars, acc) ==
    IF Ch(txt, i) \in chars THEN ParseBare(txt, i + 1, chars, Append(acc, txt[i]))
    ELSE IF acc = <<>> THEN ParseError ELSE Parsed(acc, i)

ParseKey(txt, i) ==
    IF Ch(txt, i) = Quote THEN ParseStringBody(txt, i + 1, <<>>)
    ELSE ParseBare(txt, i, BareKeyChars, <<>>)

DigitValue(c) == (CHOOSE n \in 1..10 : Digits[n] = c) - 1

RECURSIVE DecimalValue(_)
DecimalValue(ds) ==
    IF ds = <<>> THEN 0
    ELSE 10 * DecimalValue(SubSeq(ds, 1, Len(ds) - 1)) + DigitValue(ds[Len(ds)])

RECURSIVE ParseValue(_, _, _)
RECURSIVE ParseArray(_, _, _, _)
RECURSIVE ParseInline(_, _, _, _)

\* key = value at position i: the item and the position after it
ParseKeyValue(txt, i, none_value) ==
    LET k == ParseKey(txt, i) IN
    IF ~k.ok THEN k
    ELSE LET j == SkipSpace(txt, k.i, Blank) IN
         IF Ch(txt, j) # "=" THEN ParseError
         ELSE LET r == ParseValue(txt, SkipSpace(txt, j + 1, Blank), none_value) IN
              IF ~r.ok THEN r ELSE Parsed(Item(k.v, r.v), r.i)

\* the elements after "[", a trailing comma allowed
ParseArray(txt, i, none_value, acc) ==
    LET j == SkipSpace(txt, i, BlankOrNewline) IN
    IF Ch(txt, j) = "]" THEN Parsed(ListV(acc), j + 1)
    ELSE LET r == ParseValue(txt, j, none_value) IN
         IF ~r.ok THEN r
         ELSE LET n == SkipSpace(txt, r.i, BlankOrNewline) IN
              IF Ch(txt, n) = ","
              THEN ParseArray(txt, n + 1, none_value, Append(acc, r.v))
              ELSE IF Ch(txt, n) = "]" THEN Parsed(ListV(Append(acc, r.v)), n + 1)
              ELSE ParseError

\* the items after "{"; a key given twice is an error
ParseInline(txt, i, none_value, acc) ==
    LET j == SkipSpace(txt, i, Blank) IN
    IF Ch(txt, j) = "}" /\ acc = <<>> THEN Parsed(DictV("dict", acc), j + 1)
    ELSE LET r == ParseKeyValue(txt, j, none_value) IN
         IF ~r.ok THEN r
         ELSE IF KeyIndex(acc, r.v.k) # 0 THEN ParseError
         ELSE LET n == SkipSpace(txt, r.i, Blank) IN
              IF Ch(txt, n) = ","
              THEN ParseInline(txt, n + 1, none_value, Append(acc, r.v))
              ELSE IF Ch(txt, n) = "}"
                   THEN Parsed(DictV("dict", Append(acc, r.v)), n + 1)
                   ELSE ParseError

\* a string equal to none_value is read as None
ParseValue(txt, i, none_value) ==
    LET c == Ch(txt, i) IN
    IF c = Quote
    THEN LET r == ParseStringBody(txt, i + 1, <<>>) IN
         IF ~r.ok THEN r
         ELSE IF none_value.t = "str" /\ r.v = none_value.s THEN Parsed(NoneV, r.i)
         ELSE Parsed(StrV(r.v), r.i)
    ELSE IF c \in DigitChars
    THEN LET r == ParseBare(txt, i, DigitChars, <<>>) IN
         Parsed(IntV(DecimalValue(r.v)), r.i)
    ELSE IF c = "[" THEN ParseArray(txt, i + 1, none_value, <<>>)
    ELSE IF c = "{" THEN ParseInline(txt, i + 1, none_value, <<>>)
    ELSE ParseError

\* the lines of a document; a key given twice is an error
RECURSIVE ParseDocument(_, _, _, _)
ParseDocument(txt, i, none_value, acc) ==
    LET j == SkipSpace(txt, i, BlankOrNewline) IN
    IF Ch(txt, j) = "EOF" THEN [ok |-> TRUE, v |-> DictV("dict", acc)]
    ELSE LET r == ParseKeyValue(txt, j, none_value) IN
         IF ~r.ok THEN r
         ELSE IF KeyIndex(acc, r.v.k) # 0 THEN ParseError
         ELSE LET n == SkipSpace(txt, r.i, Blank) IN
              IF Ch(txt, n) \in {Newline, "EOF"}
              THEN ParseDocument(txt, n, none_value, Append(acc, r.v))
              ELSE ParseError

\* rtoml.loads
rtoml_loads(toml, none_value) == ParseDocument(toml, 1, none_value, <<>>)

---------------------------------------------------------------------------
(* loads and dumps *)

\* a plausible slip: none_value is not handed on to the codec
loads_without_none_value(toml, none_value) == rtoml_loads(toml, NoneV)

\* loads(toml, none_value=...)
loads(toml, none_value) == rtoml_loads(toml, none_value)

\* dumps(obj, pretty=..., none_value=...)
dumps(obj, pretty, none_value) == rtoml_dumps(obj, pretty, none_value)

---------------------------------------------------------------------------
(* dumps followed by loads, on bounded value trees *)

sNull == <<"n", "u", "l", "l">>
sDash == <<"-">>
sQuoted == <<"a", Quote, Backslash>>

Sentinels == {sNull, sDash}

CodecLeaves == {IntV(12), NoneV, StrV(sNull), StrV(sQuoted)}

CodecValues ==
    CodecLeaves
        \cup { ListV(<<x, y>>) : x \in CodecLeaves, y \in {NoneV, StrV(sDash)} }
        \cup { ListV(<<>>), PlainDict(<<>>) }
        \cup { PlainDict(<<Item(kAB, x)>>) : x \in CodecLeaves }

CodecTrees ==
    { PlainDict(<<Item(kA, x), Item(kB, y)>>) : x \in CodecValues, y \in {NoneV, IntV(0)} }
        \cup { TomlDict__init__(PlainDict(<<Item(kAB, x)>>)) : x \in CodecValues }

InitCodec ==
    /\ tree \in CodecTrees
    /\ opts \in { [pretty |-> p, none_value |-> StrV(s)] :
                      p \in BOOLEAN, s \in Sentinels }
    /\ doc = Unset
    /\ back = Unset
    /\ d = DictV("TomlDict", <<>>) /\ attrs = <<>> /\ pre = d
    /\ last = [op |-> "init"] /\ nops = 0
    /\ InitIO

NoDict == UNCHANGED <<d, attrs, pre, last, nops>>

\* doc = dumps(tree, pretty=..., none_value=s)
Dumps ==
    /\ doc = Unset
    /\ doc' = dumps(tree, opts.pretty, opts.none_value)
    /\ UNCHANGED <<tree, opts, back>> /\ NoDict /\ NoIO

\* back = loads(doc, none_value=s)
Loads ==
    /\ doc # Unset /\ doc.ok /\ back = Unset
    /\ back' = loads(doc.text, opts.none_value)
    /\ UNCHANGED <<tree, opts, doc>> /\ NoDict /\ NoIO

NextCodec == Dumps \/ Loads

SpecCodec == InitCodec /\ [][NextCodec]_vars

\* Python's == on value trees: dicts compare by their items, whatever their
\* class and order; lists element by element
RECURSIVE DeepEqual(_, _)
DeepEqual(x, y) ==
    IF IsDict(x) /\ IsDict(y)
    THEN /\ Len(x.items) = Len(y.items)
         /\ \A i \in 1..Len(x.items) :
                /\ HasKey(y, x.items[i].k)
                /\ DeepEqual(x.items[i].v, GetItem(y, x.items[i].k))
    ELSE IF IsList(x) /\ IsList(y)
    THEN /\ Len(x.elems) = Len(y.elems)
         /\ \A i \in 1..Len(x.elems) : DeepEqual(x.elems[i], y.elems[i])
    ELSE x = y

\* whether the tree holds the value leaf somewhere
RECURSIVE Holds(_, _)
Holds(value, leaf) ==
    IF IsDict(value)
    THEN \E i \in 1..Len(value.items) : Holds(value.items[i].v, leaf)
    ELSE IF IsList(value)
         THEN \E i \in 1..Len(value.elems) : Holds(value.elems[i], leaf)
         ELSE value = leaf

RoundTripped == back # Unset /\ back.ok /\ DeepEqual(back.v, tree)

\* C2 as stated: for every tree t that contains None and every sentinel s,
\* loads(dumps(t, none_value=s), none_value=s) is deep-equal to t, for
\* pretty=False and pretty=True.
C2_NullSentinelLaw ==
    (back # Unset /\ Holds(tree, NoneV)) => RoundTripped

\* C2 amended: the same for every tree t in which no string is equal to s.
C2_NullSentinelLawNoCollision ==
    (back # Unset /\ Holds(tree, NoneV) /\ ~Holds(tree, opts.none_value))
        => RoundTripped

\* a pretty document with None next to a string that needs escaping came back
C2_WitnessRoundTrip ==
    /\ RoundTripped /\ opts.pretty
    /\ Holds(tree, NoneV) /\ Holds(tree, StrV(sQuoted))
    /\ ~Holds(tree, opts.none_value)
    /\ Holds(back.v, NoneV)
    /\ \E i \in 1..(Len(doc.text) - 1) :
           doc.text[i] = Newline /\ doc.text[i + 1] = " "

---------------------------------------------------------------------------
(* Text encodings *)

\* ord(c) of the characters the documents are made of
CodePoints ==
    (Newline :> 10) @@ (" " :> 32) @@ (Quote :> 34) @@ ("," :> 44) @@ ("-" :> 45)
    @@ ("." :> 46) @@ [c \in DigitChars |-> 48 + DigitValue(c)] @@ ("=" :> 61)
    @@ ("[" :> 91) @@ (Backslash :> 92) @@ ("]" :> 93) @@ ("_" :> 95)
    @@ ("a" :> 97) @@ ("b" :> 98) @@ ("l" :> 108) @@ ("n" :> 110) @@ ("u" :> 117)
    @@ ("x" :> 120) @@ ("{" :> 123) @@ ("}" :> 125) @@ ("é" :> 233)

\* the bytes of one character, or <<>> when the encoding has none for it
EncodeChar(c, encoding) ==
    LET cp == CodePoints[c] IN
    IF cp < 128 THEN <<cp>>
    ELSE IF encoding = "utf-8" THEN <<192 + (cp \div 64), 128 + (cp % 64)>>
    ELSE <<>>

RECURSIVE EncodeFrom(_, _, _, _)
EncodeFrom(s, i, encoding, acc) ==
    IF i > Len(s) THEN [ok |-> TRUE, bytes |-> acc]
    ELSE LET b == EncodeChar(s[i], encoding) IN
         IF b = <<>> THEN [ok |-> FALSE, exc |-> "UnicodeEncodeError"]
         ELSE EncodeFrom(s, i + 1, encoding, acc \o b)

\* s.encode(encoding=encoding), for "utf-8" and "ascii"
encode(s, encoding) == EncodeFrom(s, 1, encoding, <<>>)

---------------------------------------------------------------------------
(* dump *)

\* the destinations: [fileC, textC, binC]
Dest(f, t, b) == [fileC |-> f, textC |-> t, binC |-> b]

\* Path.write_text(s, encoding): the file is opened for writing, which
\* empties it, then the encoded text is written; returns the characters written
write_text(s, encoding, io) ==
    LET data == encode(s, encoding) IN
    IF ~data.ok THEN [exc |-> data.exc, io |-> [io EXCEPT !.fileC = <<>>]]
    ELSE [exc |-> "none", ret |-> Len(s), io |-> [io EXCEPT !.fileC = data.bytes]]

\* a plausible slip: the binary branch returns the length of the text
dump_returning_len_s(o, file, pretty, none_value, encoding, io) ==
    LET s == dumps(o, pretty, none_value) IN
    IF ~s.ok THEN [exc |-> s.exc, io |-> io]
    ELSE IF file = "Path" THEN write_text(s.text, encoding, io)
    ELSE IF file = "TextIO"
    THEN [exc |-> "none", ret |-> Len(s.text),
          io |-> [io EXCEPT !.textC = @ \o s.text]]
    ELSE IF file = "BinaryIO"
    THEN LET data == encode(s.text, encoding) IN
         IF ~data.ok THEN [exc |-> data.exc, io |-> io]
         ELSE [exc |-> "none", ret |-> Len(s.text),
               io |-> [io EXCEPT !.binC = @ \o data.bytes]]
    ELSE [exc |-> "TypeError", io |-> io]

\* dump(o, file, pretty=..., none_value=..., encoding=...); file is the kind
\* of the destination: a Path, a TextIOBase, a BufferedIOBase, or another
dump(o, file, pretty, none_value, encoding, io) ==
    LET s == dumps(o, pretty, none_value) IN
    IF ~s.ok THEN [exc |-> s.exc, io |-> io]
    ELSE IF file = "Path" THEN write_text(s.text, encoding, io)
    ELSE IF file = "TextIO"
    THEN [exc |-> "none", ret |-> Len(s.text),
          io |-> [io EXCEPT !.textC = @ \o s.text]]
    ELSE IF file = "BinaryIO"
    THEN LET data == encode(s.text, encoding) IN
         IF ~data.ok THEN [exc |-> data.exc, io |-> io]
         ELSE [exc |-> "none", ret |-> Len(data.bytes),
               io |-> [io EXCEPT !.binC = @ \o data.bytes]]
    ELSE [exc |-> "TypeError", io |-> io]

MaxDumps == 2

sAccent == <<"a", "é">>

\* the objects handed to dump: the last holds an object TOML cannot represent
DumpObjects ==
    { PlainDict(<<Item(kA, IntV(1))>>),
      TomlDict__init__(PlainDict(<<Item(kA, ListV(<<StrV(sAccent), NoneV>>))>>)),
      PlainDict(<<Item(kB, ObjV)>>) }

\* str stands for a file name given as a string, RawIO for an unbuffered
\* binary file: neither is a Path, a TextIOBase or a BufferedIOBase
FileKinds == {"Path", "TextIO", "BinaryIO", "str", "RawIO"}

DumpOptions ==
    { [pretty |-> FALSE, none_value |-> StrV(sNull)],
      [pretty |-> TRUE, none_value |-> StrV(sNull)],
      [pretty |-> FALSE, none_value |-> NoneV] }

InitDump ==
    /\ InitIO
    /\ pre = Dest(fileC, textC, binC)
    /\ last = [op |-> "init"]
    /\ nops = 0
    /\ d = DictV("TomlDict", <<>>) /\ attrs = <<>>
    /\ InitNoCodec

Dump ==
    \E o \in DumpObjects, file \in FileKinds, opt \in DumpOptions,
       encoding \in {"utf-8", "ascii"} :
        LET r == dump(o, file, opt.pretty, opt.none_value, encoding,
                      Dest(fileC, textC, binC)) IN
        /\ nops < MaxDumps
        /\ nops' = nops + 1
        /\ pre' = Dest(fileC, textC, binC)
        /\ fileC' = r.io.fileC /\ textC' = r.io.textC /\ binC' = r.io.binC
        /\ last' = [op |-> "dump", obj |-> o, file |-> file, pretty |-> opt.pretty,
                    none_value |-> opt.none_value, encoding |-> encoding, out |-> r]
        /\ UNCHANGED <<d, attrs>> /\ NoCodec

NextDump == Dump

SpecDump == InitDump /\ [][NextDump]_vars

NothingWritten == Dest(fileC, textC, binC) = pre

====
